---------------------------- MODULE Spec2Model ----------------------------
(***************************************************************************)
(* Model of src/api/ai.py: the response-recovery and schema-coercion       *)
(* logic of validate_and_fix_json, analyze_text_with_ai and                *)
(* chat_analyze_text_with_ai.                                              *)
(*                                                                         *)
(* JSON / Python values are tagged records:                                *)
(*   [t |-> "null"], [t |-> "bool", v |-> BOOLEAN], [t |-> "num", v |-> n], *)
(*   [t |-> "str", v |-> STRING], [t |-> "list", v |-> sequence],          *)
(*   [t |-> "dict", v |-> function from key strings to values].            *)
(* A text (the model executor's content, a json.dumps result) is a         *)
(* sequence of tokens: punctuation, scalar literals, whitespace, markdown  *)
(* fences and non-JSON words.                                              *)
(***************************************************************************)
EXTENDS Integers, Sequences, FiniteSets, TLC

VARIABLES flow, pc, text, schema, history, image, candidates, selected,
          messages, executor, reply, data, outcome, result

vars == <<flow, pc, text, schema, history, image, candidates, selected,
          messages, executor, reply, data, outcome, result>>

(***************************************************************************)
(* Bounds of the model.                                                    *)
(***************************************************************************)
MaxFields == 2
MaxHistory == 2
MaxItems == 1

(***************************************************************************)
(* Python values.                                                          *)
(***************************************************************************)
Null == [t |-> "null"]
Bool(b) == [t |-> "bool", v |-> b]
Num(n) == [t |-> "num", v |-> n]
Str(s) == [t |-> "str", v |-> s]
List(q) == [t |-> "list", v |-> q]
Dict(f) == [t |-> "dict", v |-> f]
EmptyDict == Dict(<<>>)
D1(k, x) == Dict(k :> x)
D2(k1, x1, k2, x2) == Dict((k1 :> x1) @@ (k2 :> x2))

IsDict(x) == x.t = "dict"
IsList(x) == x.t = "list"
IsStr(x) == x.t = "str"
Keys(d) == DOMAIN d.v
Has(d, k) == k \in DOMAIN d.v
\* dict.get(k) with default None, dict.get(k, dflt)
GetOr(d, k, dflt) == IF Has(d, k) THEN d.v[k] ELSE dflt
Get(d, k) == GetOr(d, k, Null)
\* d[k] = x
Put(d, k, x) == Dict((k :> x) @@ d.v)
\* del d[k] for every k in ks
DelAll(d, ks) == Dict([k \in (DOMAIN d.v) \ ks |-> d.v[k]])
\* {key: d[key] for key in ks}
Restrict(d, ks) == Dict([k \in ks |-> d.v[k]])

\* Python truthiness: bool(x)
Truthy(x) ==
    CASE x.t = "null" -> FALSE
      [] x.t = "bool" -> x.v
      [] x.t = "num"  -> x.v # 0
      [] x.t = "str"  -> x.v # ""
      [] x.t = "list" -> Len(x.v) > 0
      [] x.t = "dict" -> DOMAIN x.v # {}

RECURSIVE JoinStr(_, _)
\* sep.join(q) for a sequence q of TLA+ strings
JoinStr(q, sep) ==
    IF Len(q) = 0 THEN ""
    ELSE IF Len(q) = 1 THEN q[1]
    ELSE q[1] \o sep \o JoinStr(Tail(q), sep)

RECURSIVE SetToSeq(_)
\* the elements of a finite set in some order (dict iteration order of a
\* mapping whose insertion order the model does not keep)
SetToSeq(S) ==
    IF S = {} THEN <<>>
    ELSE LET e == CHOOSE e \in S : TRUE IN <<e>> \o SetToSeq(S \ {e})

RECURSIVE PyRepr(_)
\* repr(x); str(x) differs from it on strings only
PyRepr(x) ==
    CASE x.t = "null" -> "None"
      [] x.t = "bool" -> IF x.v THEN "True" ELSE "False"
      [] x.t = "num"  -> ToString(x.v)
      [] x.t = "str"  -> "'" \o x.v \o "'"
      [] x.t = "list" ->
           "[" \o JoinStr([i \in 1..Len(x.v) |-> PyRepr(x.v[i])], ", ") \o "]"
      [] x.t = "dict" ->
           LET ks == SetToSeq(DOMAIN x.v) IN
           "{" \o JoinStr([i \in 1..Len(ks) |->
                             "'" \o ks[i] \o "': " \o PyRepr(x.v[ks[i]])], ", ")
               \o "}"

\* str(x)
PyStr(x) == IF x.t = "str" THEN x.v ELSE PyRepr(x)


(***************************************************************************)
(* Texts as token sequences.  A string literal of the vocabulary holds no *)
(* brace, bracket or backtick, so str.find("{") is the first brace token.  *)
(***************************************************************************)
P(c) == [t |-> "p", v |-> c]
Lit(x) == [t |-> "lit", v |-> x]
Ws == [t |-> "ws"]
Junk == [t |-> "junk"]
Fence == [t |-> "fence"]
FenceJson == [t |-> "fencejson"]

IsP(tok, c) == tok.t = "p" /\ tok.v = c

\* Python's s[a:b] on a sequence, positions counted from 0, negative
\* positions counted from the end
PySlice(s, a, b) ==
    LET n  == Len(s)
        a1 == IF a < 0 THEN (IF a + n < 0 THEN 0 ELSE a + n)
              ELSE (IF a > n THEN n ELSE a)
        b1 == IF b < 0 THEN (IF b + n < 0 THEN 0 ELSE b + n)
              ELSE (IF b > n THEN n ELSE b)
    IN  IF a1 >= b1 THEN <<>> ELSE SubSeq(s, a1 + 1, b1)

RECURSIVE Strip(_)
\* str.strip()
Strip(s) ==
    IF Len(s) = 0 THEN s
    ELSE IF s[1] = Ws THEN Strip(Tail(s))
    ELSE IF s[Len(s)] = Ws THEN Strip(SubSeq(s, 1, Len(s) - 1))
    ELSE s

\* str.find(c): position from 0 of the first token c, or -1
Find(s, c) ==
    IF \E i \in 1..Len(s) : IsP(s[i], c)
    THEN (CHOOSE i \in 1..Len(s) :
             IsP(s[i], c) /\ \A j \in 1..(i - 1) : ~IsP(s[j], c)) - 1
    ELSE -1

\* str.rfind(c): position from 0 of the last token c, or -1
RFind(s, c) ==
    IF \E i \in 1..Len(s) : IsP(s[i], c)
    THEN (CHOOSE i \in 1..Len(s) :
             IsP(s[i], c) /\ \A j \in (i + 1)..Len(s) : ~IsP(s[j], c)) - 1
    ELSE -1

\* if json_str.startswith("```json"): json_str = json_str[7:]
DropJsonFence(s) == IF Len(s) > 0 /\ s[1] = FenceJson THEN Tail(s) ELSE s

\* if json_str.startswith("```"): json_str = json_str[3:]
\* ("```json" also starts with "```": the rest of it, "json", stays)
DropOpeningFence(s) ==
    IF Len(s) > 0 /\ s[1] = Fence THEN Tail(s)
    ELSE IF Len(s) > 0 /\ s[1] = FenceJson THEN <<Junk>> \o Tail(s)
    ELSE s

\* if json_str.endswith("```"): json_str = json_str[:-3]
DropClosingFence(s) ==
    IF Len(s) > 0 /\ s[Len(s)] = Fence THEN SubSeq(s, 1, Len(s) - 1) ELSE s

\* the markdown clean-up of validate_and_fix_json
StripFences(json_str) ==
    Strip(DropClosingFence(DropOpeningFence(DropJsonFence(Strip(json_str)))))

RECURSIVE SkipWs(_, _)
SkipWs(s, i) == IF i <= Len(s) /\ s[i] = Ws THEN SkipWs(s, i + 1) ELSE i

ParseFail == [ok |-> FALSE, val |-> Null, next |-> 0]

RECURSIVE ParseValue(_, _), ParseList(_, _, _, _), ParseDict(_, _, _, _)
RECURSIVE ParseValueAt(_, _), ParseListAt(_, _, _, _), ParseDictAt(_, _, _, _)
RECURSIVE ListAfterValue(_, _, _), DictAfterKey(_, _, _, _), DictAfterValue(_, _, _, _)
\* the JSON decoder: one value starting at token i, whitespace skipped
ParseValue(s, i) == ParseValueAt(s, SkipWs(s, i))

ParseValueAt(s, j) ==
    IF j > Len(s) THEN ParseFail
    ELSE IF s[j].t = "lit" THEN [ok |-> TRUE, val |-> s[j].v, next |-> j + 1]
    ELSE IF IsP(s[j], "[") THEN ParseList(s, j + 1, <<>>, "first")
    ELSE IF IsP(s[j], "{") THEN ParseDict(s, j + 1, <<>>, "first")
    ELSE ParseFail

\* the elements of an array; st is "first", "value" (after a comma) or "sep"
ParseList(s, i, acc, st) == ParseListAt(s, SkipWs(s, i), acc, st)

ParseListAt(s, j, acc, st) ==
    IF j > Len(s) THEN ParseFail
    ELSE IF st = "first" /\ IsP(s[j], "]")
         THEN [ok |-> TRUE, val |-> List(acc), next |-> j + 1]
    ELSE IF st \in {"first", "value"} THEN ListAfterValue(s, acc, ParseValueAt(s, j))
    ELSE IF IsP(s[j], ",") THEN ParseList(s, j + 1, acc, "value")
    ELSE IF IsP(s[j], "]") THEN [ok |-> TRUE, val |-> List(acc), next |-> j + 1]
    ELSE ParseFail

ListAfterValue(s, acc, r) ==
    IF r.ok THEN ParseList(s, r.next, Append(acc, r.val), "sep") ELSE ParseFail

\* the members of an object; a repeated key keeps its last value
ParseDict(s, i, acc, st) == ParseDictAt(s, SkipWs(s, i), acc, st)

ParseDictAt(s, j, acc, st) ==
    IF j > Len(s) THEN ParseFail
    ELSE IF st = "first" /\ IsP(s[j], "}")
         THEN [ok |-> TRUE, val |-> Dict(acc), next |-> j + 1]
    ELSE IF st \in {"first", "value"}
         THEN IF s[j].t = "lit" /\ s[j].v.t = "str"
              THEN DictAfterKey(s, acc, s[j].v.v, SkipWs(s, j + 1))
              ELSE ParseFail
    ELSE IF IsP(s[j], ",") THEN ParseDict(s, j + 1, acc, "value")
    ELSE IF IsP(s[j], "}") THEN [ok |-> TRUE, val |-> Dict(acc), next |-> j + 1]
    ELSE ParseFail

DictAfterKey(s, acc, key, c) ==
    IF c <= Len(s) /\ IsP(s[c], ":")
    THEN DictAfterValue(s, acc, key, ParseValue(s, c + 1))
    ELSE ParseFail

DictAfterValue(s, acc, key, r) ==
    IF r.ok THEN ParseDict(s, r.next, (key :> r.val) @@ acc, "sep") ELSE ParseFail

\* the whole text must be one value
WholeText(s, r) ==
    IF r.ok /\ SkipWs(s, r.next) > Len(s)
    THEN [ok |-> TRUE, val |-> r.val]
    ELSE [ok |-> FALSE, val |-> Null]

\* json.loads: ok = FALSE is json.JSONDecodeError
JsonLoads(s) == WholeText(s, ParseValue(s, 1))

RECURSIVE JoinTok(_, _)
JoinTok(q, sep) ==
    IF Len(q) = 0 THEN <<>>
    ELSE IF Len(q) = 1 THEN q[1]
    ELSE q[1] \o sep \o JoinTok(Tail(q), sep)

RECURSIVE JsonDumps(_)
\* json.dumps with its default separators ", " and ": "
JsonDumps(x) ==
    CASE x.t = "list" ->
           <<P("[")>>
           \o JoinTok([i \in 1..Len(x.v) |-> JsonDumps(x.v[i])], <<P(","), Ws>>)
           \o <<P("]")>>
      [] x.t = "dict" ->
           LET ks == SetToSeq(DOMAIN x.v) IN
           <<P("{")>>
           \o JoinTok([i \in 1..Len(ks) |->
                         <<Lit(Str(ks[i])), P(":"), Ws>> \o JsonDumps(x.v[ks[i]])],
                      <<P(","), Ws>>)
           \o <<P("}")>>
      [] OTHER -> <<Lit(x)>>

(***************************************************************************)
(* The schema: an ordered mapping, kept as a sequence of field             *)
(* descriptors [name, type, opts]; opts says whether a select or           *)
(* multi_select descriptor carries its options list.                       *)
(***************************************************************************)
Kinds == {"title", "rich_text", "select", "multi_select", "status", "date",
          "checkbox", "number", "people", "files"}

Field(n, ty, o) == [name |-> n, type |-> ty, opts |-> o]
\* schema.keys()
SchemaKeys(sch) == {sch[i].name : i \in 1..Len(sch)}
\* schema[k]["type"]
SchemaType(sch, k) == sch[CHOOSE i \in 1..Len(sch) : sch[i].name = k].type

(***************************************************************************)
(* validate_and_fix_json.  A step of it ends in one of                     *)
(*   [st |-> "set", val |-> x]   validated[k] = x                          *)
(*   [st |-> "skip"]             nothing stored for k                      *)
(*   [st |-> "raise", exc |-> e] an exception leaves the function          *)
(***************************************************************************)
Set(x) == [st |-> "set", val |-> x, exc |-> ""]
Skip == [st |-> "skip", val |-> Null, exc |-> ""]
Raise(e) == [st |-> "raise", val |-> Null, exc |-> e]

\* float(s) of a string: the decimal numerals of the vocabulary parse,
\* every other string is a ValueError
StrIsNumber(s) == \E n \in 0..99 : ToString(n) = s
StrToNumber(s) == CHOOSE n \in 0..99 : ToString(n) = s

\* float(x)
PyFloat(x) ==
    CASE x.t = "num"  -> Set(Num(x.v))
      [] x.t = "bool" -> Set(Num(IF x.v THEN 1 ELSE 0))
      [] x.t = "str"  -> IF StrIsNumber(x.v) THEN Set(Num(StrToNumber(x.v)))
                         ELSE Raise("ValueError")
      [] OTHER        -> Raise("TypeError")

\* "plain_text" in t
InPlainText(t) ==
    CASE t.t = "dict" -> Set(Bool(Has(t, "plain_text")))
      [] t.t = "list" -> Set(Bool(\E i \in 1..Len(t.v) : t.v[i] = Str("plain_text")))
      [] t.t = "str"  -> Set(Bool(t.v = "plain_text"))
      [] OTHER        -> Raise("TypeError")

\* what one item t of the list adds to the join: Skip when the filter drops
\* it, the text of its plain_text, or the exception it raises
PlainTextPart(t, test) ==
    IF test.st = "raise" THEN test
    ELSE IF ~test.val.v THEN Skip
    ELSE IF t.t # "dict" THEN Raise("AttributeError")
    ELSE IF t.v["plain_text"].t # "str" THEN Raise("TypeError")
    ELSE Set(t.v["plain_text"])

JoinParts(parts) ==
    IF \E i \in DOMAIN parts : parts[i].st = "raise"
    THEN Raise(parts[CHOOSE i \in DOMAIN parts : parts[i].st = "raise"].exc)
    ELSE Set(Str(JoinStr([i \in DOMAIN parts |->
                   IF parts[i].st = "set" THEN parts[i].val.v ELSE ""], "")))

\* "".join([t.get("plain_text","") for t in v if "plain_text" in t])
PlainTextJoin(v) ==
    JoinParts([i \in 1..Len(v.v) |-> PlainTextPart(v.v[i], InPlainText(v.v[i]))])

\* if isinstance(v, dict): v = v.get(key)
Extract(v, key) == IF IsDict(v) THEN Get(v, key) ELSE v

\* if item: opts.append({"name": str(item)})
OptOf(item) == IF Truthy(item) THEN <<D1("name", Str(PyStr(item)))>> ELSE <<>>

RECURSIVE MultiSelectOpts(_)
\* the opts list built from the items of a multi_select candidate
MultiSelectOpts(items) ==
    IF Len(items) = 0 THEN <<>>
    ELSE OptOf(Extract(items[1], "name")) \o MultiSelectOpts(Tail(items))

\* validated[k] = {tag: [{"text": {"content": str(v)}}]}
RichTextOf(tag, j) ==
    IF j.st = "raise" THEN j
    ELSE Set(D1(tag, List(<<D1("text", D1("content", Str(PyStr(j.val))))>>)))

\* the title and rich_text branches
RichText(tag, v) == RichTextOf(tag, IF IsList(v) THEN PlainTextJoin(v) ELSE Set(v))

\* if v: validated[k] = {tag: {key: str(v)}}
NamedIfTruthy(tag, key, w) ==
    IF Truthy(w) THEN Set(D1(tag, D1(key, Str(PyStr(w))))) ELSE Skip

\* the number branch once float(v) was tried
NumberOf(f) == IF f.st = "set" THEN Set(D1("number", f.val)) ELSE Skip

\* a checkbox stored only when the value is truthy
CoerceCheckboxIfTruthy(v) ==
    IF Truthy(v) THEN Set(D1("checkbox", Bool(TRUE))) ELSE Skip

\* the checkbox branch
CoerceCheckbox(v) == Set(D1("checkbox", Bool(Truthy(v))))

\* a people or files field stored as an empty list
CoerceUnsupportedStored(ty) == Set(D1(ty, List(<<>>)))

\* the people and files branches: pass
CoerceUnsupported(ty) == Skip

\* one pass of the loop body for a key of the schema with declared type ty
CoerceField(ty, v) ==
    CASE ty = "select" -> NamedIfTruthy("select", "name", Extract(v, "name"))
      [] ty = "multi_select" ->
           Set(D1("multi_select", List(MultiSelectOpts(IF IsList(v) THEN v.v ELSE <<v>>))))
      [] ty = "status" -> NamedIfTruthy("status", "name", Extract(v, "name"))
      [] ty = "date" -> NamedIfTruthy("date", "start", Extract(v, "start"))
      [] ty = "checkbox" -> CoerceCheckbox(v)
      [] ty = "number" -> IF v.t = "null" THEN Skip ELSE NumberOf(PyFloat(v))
      [] ty = "title" -> RichText("title", v)
      [] ty = "rich_text" -> RichText("rich_text", v)
      [] ty \in {"people", "files"} -> CoerceUnsupported(ty)
      [] OTHER -> Skip

\* the validated mapping, or the exception of the first field that raised
Validated(out) ==
    IF \E k \in DOMAIN out : out[k].st = "raise"
    THEN Raise(out[CHOOSE k \in DOMAIN out : out[k].st = "raise"].exc)
    ELSE Set(Dict([k \in {x \in DOMAIN out : out[x].st = "set"} |-> out[k].val]))

\* the validation loop over data.items(); `if k not in schema: continue`
CoerceProperties(d, sch) ==
    IF ~IsDict(d) THEN Raise("AttributeError")
    ELSE Validated([k \in Keys(d) \cap SchemaKeys(sch) |->
                      CoerceField(SchemaType(sch, k), d.v[k])])

\* the retry on the text between the first "{" and the last "}"
RetryResult(r2) == IF r2.ok THEN Set(r2.val) ELSE Skip

RetryBraces(s, start, end) ==
    IF start # -1 /\ end # -1 THEN RetryResult(JsonLoads(PySlice(s, start, end)))
    ELSE Skip

FirstParse(s, r) ==
    IF r.ok THEN Set(r.val) ELSE RetryBraces(s, Find(s, "{"), RFind(s, "}") + 1)

RecoverCleaned(s) == FirstParse(s, JsonLoads(s))

\* the parse with its brace-substring retry; Skip stands for "return {}"
RecoverJson(json_str) == RecoverCleaned(StripFences(json_str))

CoerceParsed(p, sch) ==
    IF p.st = "skip" THEN Set(EmptyDict) ELSE CoerceProperties(p.val, sch)

ValidateAndFixJson(json_str, sch) == CoerceParsed(RecoverJson(json_str), sch)

(***************************************************************************)
(* Inputs.                                                                 *)
(***************************************************************************)
RECURSIVE SeqsUpTo(_, _)
\* the sequences over S of length at most n
SeqsUpTo(S, n) ==
    IF n = 0 THEN {<<>>}
    ELSE LET shorter == SeqsUpTo(S, n - 1) IN
         shorter \cup {Append(q, e) : q \in shorter, e \in S}

\* the schemas of at most MaxFields fields with distinct names
SchemasOver(names, kinds, optsSet) ==
    LET fields == {f \in {Field(n, ty, o) : n \in names, ty \in kinds, o \in optsSet} :
                       f.opts \/ f.type \in {"select", "multi_select"}} IN
    {q \in SeqsUpTo(fields, MaxFields) :
        \A i, j \in 1..Len(q) : i # j => q[i].name # q[j].name}

ScalarValues ==
    {Null, Bool(TRUE), Bool(FALSE), Num(0), Num(42),
     Str(""), Str("Done"), Str("42"), Str("abc")}
ObjectValues ==
    {EmptyDict, D1("name", Str("Done")), D1("name", Str("")),
     D1("start", Str("2024-01-01"))}
ItemValues ==
    {Str("Done"), Num(1), Null, D1("plain_text", Str("Buy")), D1("name", Str("Done"))}
ListValues == {List(q) : q \in SeqsUpTo(ItemValues, MaxItems)}
CandValues == ScalarValues \cup ObjectValues \cup ListValues
\* the values of the second candidate of a coercion call
OtherValues == {Str("Done"), Num(42), List(<<Num(1)>>)}

Absent == [t |-> "absent"]
\* the mapping with the keys whose value is not Absent
MapOf(f) == Dict([k \in {x \in DOMAIN f : f[x].t # "absent"} |-> f[k]])

CandidateMaps ==
    {MapOf(("Title" :> a) @@ ("Status" :> b) @@ ("Extra" :> c)) :
        a \in CandValues \cup {Absent},
        b \in OtherValues \cup {Absent},
        c \in {Str("x"), Absent}}

(***************************************************************************)
(* A call of validate_and_fix_json on the serialised candidates.           *)
(***************************************************************************)
InitCoerce ==
    /\ flow = "coerce"
    /\ pc = "call"
    /\ schema \in SchemasOver({"Title", "Status"}, Kinds, {TRUE})
    /\ candidates \in CandidateMaps
    /\ reply = JsonDumps(candidates)
    /\ text = ""
    /\ history = <<>>
    /\ image = FALSE
    /\ selected = ""
    /\ messages = <<>>
    /\ data = Null
    /\ executor = "none"
    /\ outcome = "none"
    /\ result = Null

CoerceCall ==
    /\ flow = "coerce"
    /\ pc = "call"
    /\ \E r \in {ValidateAndFixJson(reply, schema)} :
          /\ outcome' = IF r.st = "raise" THEN "raised" ELSE "returned"
          /\ result' = r.val
    /\ pc' = "done"
    /\ UNCHANGED <<executor, flow, text, schema, history, image, candidates, selected,
                   messages, reply, data>>

NextCoerce == CoerceCall

SpecCoerce == InitCoerce /\ [][NextCoerce]_vars

(***************************************************************************)
(* The collaborators of the two entry points.                              *)
(***************************************************************************)
ModelIds == {"text-model", "vision-model"}
\* select_model_for_input(has_image, user_selection): some model identifier
SelectModelForInput(has_image) == ModelIds

\* what generate_json returns beside the content
ExecUsage == D1("total_tokens", Num(7))
ExecCost == Num(3)
\* str(e) of an exception generate_json raises
ExecErrors == {"timeout", ""}

\* construct_prompt reads v['select']['options'] (v['multi_select']['options'])
\* of every select (multi_select) field: a KeyError when the key is missing
ConstructPromptRaises(sch) ==
    \E i \in 1..Len(sch) :
        sch[i].type \in {"select", "multi_select"} /\ ~sch[i].opts

(***************************************************************************)
(* analyze_text_with_ai.                                                   *)
(***************************************************************************)
\* the fallback loop without its break: the last title field wins
FallbackPropertiesNoBreak(sch, txt) ==
    Dict([n \in {sch[i].name : i \in {j \in 1..Len(sch) : sch[j].type = "title"}} |->
            D1("title", List(<<D1("text", D1("content", Str(txt)))>>))])

\* the fallback properties: the first title field of the schema, if any
FallbackProperties(sch, txt) ==
    IF \E i \in 1..Len(sch) : sch[i].type = "title"
    THEN LET i == CHOOSE i \in 1..Len(sch) :
                      /\ sch[i].type = "title"
                      /\ \A j \in 1..(i - 1) : sch[j].type # "title"
         IN  D1(sch[i].name,
                D1("title", List(<<D1("text", D1("content", Str(txt)))>>)))
    ELSE EmptyDict

FallbackResult(sch, txt, model, err) ==
    Dict(("properties" :> FallbackProperties(sch, txt))
         @@ ("usage" :> EmptyDict)
         @@ ("cost" :> Num(0))
         @@ ("model" :> Str(model))
         @@ ("error" :> Str(err)))

\* lines 313-318, or the except block when the validation raised
ResultOf(r, sch, txt, model) ==
    IF r.st = "raise" THEN FallbackResult(sch, txt, model, r.exc)
    ELSE Dict(("properties" :> r.val)
              @@ ("usage" :> ExecUsage)
              @@ ("cost" :> ExecCost)
              @@ ("model" :> Str(model)))

\* the try block once generate_json has returned content
AnalyzeResult(content, sch, txt, model) ==
    ResultOf(ValidateAndFixJson(content, sch), sch, txt, model)

SingleCands ==
    {EmptyDict,
     D1("Title", Str("Buy milk")),
     D1("Extra", Str("x")),
     D2("Title", Str("Buy milk"), "Status", Str("Done")),
     D2("Title", List(<<Num(1)>>), "Status", Str("Done")),
     D2("Name", Str("Milk"), "Status", D1("name", Str("Done")))}

\* the contents generate_json may return
SingleReplies ==
    {JsonDumps(c) : c \in SingleCands}
    \cup {<<FenceJson, Ws>> \o JsonDumps(c) \o <<Ws, Fence>> : c \in SingleCands}
    \cup {<<Junk, Ws>> \o JsonDumps(D1("Status", Str("Done"))) \o <<Ws, Junk>>}
    \cup {<<>>, <<Ws>>, <<Junk>>, <<Junk, Ws, Junk>>, <<Fence, Junk, Fence>>,
          <<Junk, P("{"), Junk>>, <<P("}"), Junk, P("{")>>, <<Junk, P("}")>>,
          <<Lit(Num(5))>>, <<Lit(Str("hi"))>>, <<Lit(Null)>>,
          JsonDumps(List(<<Num(1)>>))}

InitSingle ==
    /\ flow = "single"
    /\ pc = "call"
    /\ text \in {"", "Buy milk"}
    /\ schema \in SchemasOver({"Title", "Name", "Status"},
                              {"title", "select", "number"}, {TRUE, FALSE})
    /\ candidates = Null
    /\ reply = <<>>
    /\ history = <<>>
    /\ image = FALSE
    /\ selected = ""
    /\ messages = <<>>
    /\ data = Null
    /\ executor = "none"
    /\ outcome = "none"
    /\ result = Null

\* lines 300-304: model selection and prompt construction, outside the try
AnalyzePrepare ==
    /\ flow = "single"
    /\ pc = "call"
    /\ \E m \in SelectModelForInput(FALSE) : selected' = m
    /\ IF ConstructPromptRaises(schema)
       THEN /\ pc' = "done"
            /\ outcome' = "raised"
       ELSE /\ pc' = "await"
            /\ outcome' = "none"
    /\ UNCHANGED <<executor, flow, text, schema, history, image, candidates, messages,
                   reply, data, result>>

\* lines 306-318, and 320-338 when the validation raises
AnalyzeExecutorReturns ==
    /\ flow = "single"
    /\ pc = "await"
    /\ \E c \in SingleReplies :
          /\ reply' = c
          /\ result' = AnalyzeResult(c, schema, text, selected)
    /\ outcome' = "returned"
    /\ pc' = "done"
    /\ executor' = "returned"
    /\ UNCHANGED <<flow, text, schema, history, image, candidates, selected,
                   messages, data>>

\* lines 320-338 when generate_json raises
AnalyzeExecutorRaises ==
    /\ flow = "single"
    /\ pc = "await"
    /\ \E e \in ExecErrors : result' = FallbackResult(schema, text, selected, e)
    /\ outcome' = "returned"
    /\ pc' = "done"
    /\ executor' = "raised"
    /\ UNCHANGED <<flow, text, schema, history, image, candidates, selected,
                   messages, reply, data>>

NextSingle == AnalyzePrepare \/ AnalyzeExecutorReturns \/ AnalyzeExecutorRaises

SpecSingle == InitSingle /\ [][NextSingle]_vars

(***************************************************************************)
(* Properties of validate_and_fix_json, checked under SpecCoerce.          *)
(***************************************************************************)
CoerceReturned == flow = "coerce" /\ pc = "done" /\ outcome = "returned"
\* the candidates whose name is in the schema
Recognised == Keys(candidates) \cap SchemaKeys(schema)

\* C4: every key of the returned property map is a key of the candidates and a
\* key of the schema, and its declared kind is neither people nor files.
C4_KeysFromSchemaAndSupported ==
    CoerceReturned =>
        \A k \in Keys(result) :
            /\ k \in Keys(candidates)
            /\ k \in SchemaKeys(schema)
            /\ SchemaType(schema, k) \notin {"people", "files"}

\* C4 witness: a call that returned a non-empty map although one candidate is
\* not in the schema and another one is declared people or files.
C4_Witness ==
    /\ CoerceReturned
    /\ Keys(result) # {}
    /\ Keys(candidates) \ SchemaKeys(schema) # {}
    /\ \E k \in Recognised : SchemaType(schema, k) \in {"people", "files"}

\* float(v) succeeds
ParsesAsNumber(v) ==
    \/ v.t \in {"num", "bool"}
    \/ v.t = "str" /\ v.v \in {ToString(n) : n \in 0..99}

\* C10: for a candidate whose name is in the schema, a checkbox field is always
\* present with the boolean of the value; a number field is present iff the
\* value is non-null and parses as a number ("abc" omitted, "42" gives 42.0);
\* a select, status or date field is present iff the value, after taking
\* .name (select, status) or .start (date) out of an object, is truthy.
C10_ScalarOmissionPolicy ==
    CoerceReturned =>
        \A k \in Recognised :
            LET ty == SchemaType(schema, k)
                v  == candidates.v[k]
                nm == IF v.t = "dict" THEN (IF "name" \in DOMAIN v.v THEN v.v["name"] ELSE Null)
                      ELSE v
                sd == IF v.t = "dict" THEN (IF "start" \in DOMAIN v.v THEN v.v["start"] ELSE Null)
                      ELSE v
            IN  /\ ty = "checkbox" =>
                     /\ Has(result, k)
                     /\ result.v[k] = D1("checkbox", Bool(Truthy(v)))
                /\ ty = "number" =>
                     /\ Has(result, k) <=> (v.t # "null" /\ ParsesAsNumber(v))
                     /\ v = Str("abc") => ~Has(result, k)
                     /\ v = Str("42") => Has(result, k) /\ result.v[k] = D1("number", Num(42))
                /\ ty \in {"select", "status"} => (Has(result, k) <=> Truthy(nm))
                /\ ty = "date" => (Has(result, k) <=> Truthy(sd))

\* C10 witness: a returned call with a falsy checkbox candidate that is stored
\* and a number candidate "abc" that is omitted.
C10_Witness ==
    /\ CoerceReturned
    /\ \E k \in Recognised :
          /\ SchemaType(schema, k) = "number"
          /\ candidates.v[k] = Str("abc")
          /\ ~Has(result, k)
    /\ \E k \in Recognised :
          /\ SchemaType(schema, k) = "checkbox"
          /\ Has(result, k)

\* a candidate that cannot be converted to the declared kind of its field
Unconvertible(ty, v) ==
    \/ /\ ty \in {"title", "rich_text"}
       /\ v.t = "list"
       /\ \E i \in 1..Len(v.v) : v.v[i].t \in {"num", "str"}
    \/ /\ ty = "number"
       /\ v.t = "list"

\* C8: a candidate that cannot be converted to its field's kind makes only
\* that field absent: the call returns normally and every other field is
\* coerced as it would be without the failing field among the candidates.
C8_PerFieldIsolation ==
    (flow = "coerce" /\ pc = "done") =>
        /\ outcome = "returned"
        /\ \A k \in Recognised :
              Unconvertible(SchemaType(schema, k), candidates.v[k]) =>
                  /\ ~Has(result, k)
                  /\ LET rest == ValidateAndFixJson(
                                     JsonDumps(DelAll(candidates, {k})), schema)
                     IN  /\ rest.st = "set"
                         /\ DelAll(result, {k}) = rest.val

(***************************************************************************)
(* chat_analyze_text_with_ai.  The Japanese texts of the source are kept   *)
(* as English stand-ins of the same emptiness.                             *)
(***************************************************************************)
Placeholder == "(No text provided)"
MsgNoValidResponse == "No valid response was obtained from the AI."
MsgUnparsable == "The AI response could not be parsed."
MsgRefined(x) == "Suggesting the task name [" \o x \o "]."
MsgOrganised(x) == "Organised the content: " \o x
MsgExtracted == "Extracted the properties."
MsgDone == "(response complete)"

Turn(r, c) == [role |-> r, content |-> c]

\* the schema summary embedded in the system message
SchemaInfoText(sch) ==
    JoinStr([i \in 1..Len(sch) |->
               sch[i].name \o ": " \o sch[i].type
               \o (IF sch[i].type \in {"select", "multi_select"} /\ sch[i].opts
                   THEN " options" ELSE "")], ", ")

SystemMessage(sch) == Turn("system", "Target Schema: {" \o SchemaInfoText(sch) \o "}")

\* prepare_multimodal_prompt(text, image_data, image_mime_type)
PrepareMultimodalPrompt(t) == "[image] " \o t

\* the current user turn
UserTurn(txt, img) ==
    IF img THEN Turn("user", PrepareMultimodalPrompt(IF txt # "" THEN txt ELSE Placeholder))
    ELSE IF txt # "" THEN Turn("user", txt)
    ELSE Turn("user", Placeholder)

\* the message list built by extending the caller's list in place
AssembleMessagesInPlace(sch, hist, txt, img) ==
    [messages |-> <<SystemMessage(sch)>> \o hist \o <<UserTurn(txt, img)>>,
     history  |-> <<SystemMessage(sch)>> \o hist \o <<UserTurn(txt, img)>>]

\* the message list of lines 408-429, and the caller's list after it
AssembleMessages(sch, hist, txt, img) ==
    [messages |-> <<SystemMessage(sch)>>
                  \o (IF Len(hist) > 0 THEN hist ELSE <<>>)
                  \o <<UserTurn(txt, img)>>,
     history  |-> hist]

\* lines 446-456: a string is wrapped, a list gives its first element
ShapeOf(x) ==
    IF IsStr(x) THEN D1("message", x)
    ELSE IF IsList(x)
         THEN (IF Len(x.v) > 0 /\ IsDict(x.v[1]) THEN x.v[1] ELSE EmptyDict)
         ELSE x

\* lines 458-459: if not data
DefaultIfEmpty(d) ==
    IF ~Truthy(d) THEN D1("message", Str(MsgNoValidResponse)) ELSE d

\* lines 466-477: the recovery from the text between the braces
ChatRecovered(r2) ==
    IF r2.ok THEN r2.val
    ELSE D2("message", Str(MsgUnparsable), "raw_response", Str("<content>"))

ChatParsed(json_resp, r) ==
    IF r.ok THEN DefaultIfEmpty(ShapeOf(r.val))
    ELSE ChatRecovered(JsonLoads(PySlice(json_resp, Find(json_resp, "{"),
                                         RFind(json_resp, "}") + 1)))

\* lines 438-477: the parse of the content and its shape handling
ChatParse(json_resp) == ChatParsed(json_resp, JsonLoads(json_resp))

\* the fallback message of lines 484-497
FallbackMessage(d) ==
    IF Has(d, "refined_text") /\ Truthy(d.v["refined_text"])
    THEN MsgRefined(PyStr(d.v["refined_text"]))
    ELSE IF \E key \in {"Title", "Content", "properties"} : Has(d, key)
    THEN IF Has(d, "Title") \/ Has(d, "Content")
         THEN IF Truthy(GetOr(d, "Title", Str("")))
              THEN MsgOrganised(PyStr(GetOr(d, "Title", Str(""))))
              ELSE MsgExtracted
         ELSE MsgExtracted
    ELSE MsgDone

\* lines 480-498: the message-field guarantee; `"message" not in data` is a
\* TypeError on a number or a boolean
EnsureMessage(d) ==
    IF d.t \in {"num", "bool", "null"} THEN Raise("TypeError")
    ELSE IF ~Has(d, "message") \/ ~Truthy(d.v["message"])
    THEN Set(Put(d, "message", Str(FallbackMessage(d))))
    ELSE Set(d)

\* the keys moved by the top-level-leak correction
PropertyKeys(d, sch) == Keys(d) \cap SchemaKeys(sch)

\* the correction copying the pairs without deleting them from the top level
NormalizePropertiesKeepTopLevel(d, sch) ==
    IF ~Has(d, "properties") /\ PropertyKeys(d, sch) # {}
    THEN Put(d, "properties", Restrict(d, PropertyKeys(d, sch)))
    ELSE d

\* lines 502-515: the top-level-leak correction
NormalizeProperties(d, sch) ==
    IF ~Has(d, "properties") /\ PropertyKeys(d, sch) # {}
    THEN Put(DelAll(d, PropertyKeys(d, sch)), "properties",
             Restrict(d, PropertyKeys(d, sch)))
    ELSE d

StoreProperties(d, r) == IF r.st = "raise" THEN r ELSE Set(Put(d, "properties", r.val))

\* lines 518-522: the coercion of data["properties"]
CoerceChatProperties(d, sch) ==
    IF Has(d, "properties") /\ Truthy(d.v["properties"])
    THEN StoreProperties(d, ValidateAndFixJson(JsonDumps(d.v["properties"]), sch))
    ELSE Set(d)

\* lines 525-527: the metadata of the executor's result
AttachMetadata(d, model) ==
    Put(Put(Put(d, "usage", ExecUsage), "cost", ExecCost), "model", Str(model))

\* the schema fields of the chat calls
ChatFields ==
    {Field("Title", "title", TRUE), Field("Status", "select", TRUE),
     Field("message", "rich_text", TRUE)}
ChatSchemas ==
    {q \in SeqsUpTo(ChatFields, MaxFields) :
        \A i, j \in 1..Len(q) : i # j => q[i].name # q[j].name}

ChatTurns == {Turn("user", "earlier question"), Turn("assistant", "earlier answer")}

\* the objects the model may answer with
ChatDicts ==
    {EmptyDict,
     D1("message", Str("hi")),
     D1("message", Str("")),
     D1("stamp", Str(":)")),
     D1("refined_text", Str("")),
     D1("Status", Str("Done")),
     D1("Title", Str("Buy milk")),
     D1("Title", Str("")),
     D1("Content", Str("body")),
     D1("properties", Str("abc")),
     D1("properties", Num(5)),
     D1("properties", D1("Title", List(<<Num(1)>>))),
     D1("properties", D1("Status", Str("Done"))),
     D2("message", Str("hi"), "properties", Null),
     D2("message", Str("hi"), "properties", EmptyDict),
     D2("message", Str("hi"), "properties", List(<<Num(1)>>)),
     D2("message", Str("hi"), "properties", D2("Status", Str("Done"), "Extra", Str("x"))),
     D2("message", Str("hi"), "Status", Str("Done")),
     D2("message", Str("hi"), "Title", List(<<Num(1)>>)),
     D2("Status", Str("Done"), "refined_text", Str("Buy milk")),
     D2("Title", Str("Buy milk"), "Status", D1("name", Str("Done"))),
     Dict(("message" :> Str("hi")) @@ ("Status" :> Str("Done")) @@ ("properties" :> Null)),
     Dict(("message" :> Str("hi")) @@ ("Title" :> Str("Buy milk"))
          @@ ("properties" :> D1("Status", Str("Done"))))}

\* the contents generate_json may return to a chat call
ChatReplies ==
    {JsonDumps(c) : c \in ChatDicts}
    \cup {<<Lit(x)>> : x \in {Null, Bool(TRUE), Bool(FALSE), Num(0), Num(5),
                              Str(""), Str("hi")}}
    \cup {JsonDumps(List(q)) :
            q \in {<<>>, <<Num(1)>>, <<EmptyDict>>, <<D1("Status", Str("Done")), Num(1)>>}}
    \cup {<<>>, <<Junk>>, <<Junk, P("}")>>, <<P("}"), Junk, P("{")>>,
          <<Junk, P("{"), Junk, P("}")>>,
          <<Junk, Ws>> \o JsonDumps(D1("Status", Str("Done"))) \o <<Ws, Junk>>,
          <<Junk, Ws>> \o JsonDumps(EmptyDict),
          <<FenceJson, Ws>> \o JsonDumps(D1("message", Str("hi"))) \o <<Ws, Fence>>}

InitChat ==
    /\ flow = "chat"
    /\ pc = "call"
    /\ text \in {"", "hi"}
    /\ image \in BOOLEAN
    /\ history \in SeqsUpTo(ChatTurns, MaxHistory)
    /\ schema \in ChatSchemas
    /\ candidates = Null
    /\ reply = <<>>
    /\ selected = ""
    /\ messages = <<>>
    /\ data = Null
    /\ executor = "none"
    /\ outcome = "none"
    /\ result = Null

\* lines 368-433: model selection, message assembly, the call of generate_json
ChatCallModel ==
    /\ flow = "chat"
    /\ pc = "call"
    /\ \E m \in SelectModelForInput(image) : selected' = m
    /\ \E a \in {AssembleMessages(schema, history, text, image)} :
          /\ messages' = a.messages
          /\ history' = a.history
    /\ pc' = "await"
    /\ UNCHANGED <<executor, flow, text, schema, image, candidates, reply, data, outcome,
                   result>>

\* generate_json raises: nothing guards the call
ChatExecutorRaises ==
    /\ flow = "chat"
    /\ pc = "await"
    /\ outcome' = "raised"
    /\ pc' = "done"
    /\ executor' = "raised"
    /\ UNCHANGED <<flow, text, schema, history, image, candidates, selected,
                   messages, reply, data, result>>

\* generate_json returns; lines 435-477 parse its content
ChatExecutorReturns ==
    /\ flow = "chat"
    /\ pc = "await"
    /\ \E c \in ChatReplies :
          /\ reply' = c
          /\ data' = ChatParse(c)
    /\ pc' = "parsed"
    /\ executor' = "returned"
    /\ UNCHANGED <<flow, text, schema, history, image, candidates, selected,
                   messages, outcome, result>>

\* lines 480-498
ChatEnsureMessage ==
    /\ flow = "chat"
    /\ pc = "parsed"
    /\ \E r \in {EnsureMessage(data)} :
          IF r.st = "raise"
          THEN /\ outcome' = "raised"
               /\ pc' = "done"
               /\ data' = data
          ELSE /\ outcome' = outcome
               /\ pc' = "messaged"
               /\ data' = r.val
    /\ UNCHANGED <<executor, flow, text, schema, history, image, candidates, selected,
                   messages, reply, result>>

\* lines 502-515
ChatNormalize ==
    /\ flow = "chat"
    /\ pc = "messaged"
    /\ data' = NormalizeProperties(data, schema)
    /\ pc' = "normalized"
    /\ UNCHANGED <<executor, flow, text, schema, history, image, candidates, selected,
                   messages, reply, outcome, result>>

\* lines 518-531
ChatCoerceAndReturn ==
    /\ flow = "chat"
    /\ pc = "normalized"
    /\ \E r \in {CoerceChatProperties(data, schema)} :
          IF r.st = "raise"
          THEN /\ outcome' = "raised"
               /\ result' = result
          ELSE /\ outcome' = "returned"
               /\ result' = AttachMetadata(r.val, selected)
    /\ pc' = "done"
    /\ UNCHANGED <<executor, flow, text, schema, history, image, candidates, selected,
                   messages, reply, data>>

NextChat ==
    \/ ChatCallModel
    \/ ChatExecutorRaises
    \/ ChatExecutorReturns
    \/ ChatEnsureMessage
    \/ ChatNormalize
    \/ ChatCoerceAndReturn

SpecChat == InitChat /\ [][NextChat]_vars

(***************************************************************************)
(* Properties of analyze_text_with_ai, checked under SpecSingle.           *)
(***************************************************************************)
SingleDone == flow = "single" /\ pc = "done"

\* the property map holding exactly the field named n, a title with content txt
TitleOnly(n, txt) ==
    Dict(n :> Dict("title" :> List(<<Dict("text" :> Dict("content" :> Str(txt)))>>)))

HasTitleField(sch) == \E i \in 1..Len(sch) : sch[i].type = "title"
IsFirstTitle(sch, i) ==
    /\ i \in 1..Len(sch)
    /\ sch[i].type = "title"
    /\ \A j \in 1..(i - 1) : sch[j].type # "title"

\* the content is the empty string, or has no brace and does not parse
EmptyOrBracelessGarbage(c) ==
    \/ Len(c) = 0
    \/ /\ \A i \in 1..Len(c) : ~IsP(c[i], "{") /\ ~IsP(c[i], "}")
       /\ ~JsonLoads(StripFences(c)).ok

\* C1: whenever the executor returns content that is empty or unparsable
\* text without braces, the result has exactly one property, the schema's
\* title field with the input text, and a non-empty error.
C1_GarbageGivesTitleFallback ==
    (/\ SingleDone
     /\ executor = "returned"
     /\ EmptyOrBracelessGarbage(reply)
     /\ HasTitleField(schema)) =>
        /\ outcome = "returned"
        /\ \E i \in 1..Len(schema) :
              /\ schema[i].type = "title"
              /\ result.v["properties"] = TitleOnly(schema[i].name, text)
        /\ Has(result, "error")
        /\ result.v["error"] # Str("")

\* the fallback result but for its properties and its error text
IsFallbackShaped(r, model) ==
    /\ Has(r, "error")
    /\ r.v["usage"] = EmptyDict
    /\ r.v["cost"] = Num(0)
    /\ r.v["model"] = Str(model)

\* C5: if model selection, prompt construction or the executor call raises,
\* the call does not raise but returns a Fallback result.
C5_EveryFailureGivesFallback ==
    SingleDone =>
        /\ outcome = "returned"
        /\ executor = "raised" =>
              /\ IsFallbackShaped(result, selected)
              /\ \A k \in Keys(result.v["properties"]) :
                    SchemaType(schema, k) = "title"

\* C6 as stated: every result with an error field has properties holding
\* exactly the first title field of the schema, with the input text, so that
\* the caller always has a storable title (shown on the schemas with a field).
C6_ErrorResultHasFirstTitle ==
    (SingleDone /\ outcome = "returned" /\ Has(result, "error") /\ Len(schema) > 0) =>
        \E i \in 1..Len(schema) :
            /\ IsFirstTitle(schema, i)
            /\ result.v["properties"] = TitleOnly(schema[i].name, text)

\* C6 amended: every result with an error field has properties holding exactly
\* the first title field of the schema with the input text when the schema
\* has a title field, and empty properties when it has none.
C6_ErrorResultHasFirstTitleIfAny ==
    (SingleDone /\ outcome = "returned" /\ Has(result, "error")) =>
        IF HasTitleField(schema)
        THEN \E i \in 1..Len(schema) :
                /\ IsFirstTitle(schema, i)
                /\ result.v["properties"] = TitleOnly(schema[i].name, text)
        ELSE result.v["properties"] = EmptyDict

\* C6 witness: an error result for a schema with two title fields and a
\* non-empty input text, after generate_json returned content.
C6_Witness ==
    /\ SingleDone
    /\ outcome = "returned"
    /\ Has(result, "error")
    /\ executor = "returned"
    /\ text # ""
    /\ Len(schema) = 2
    /\ \A i \in 1..Len(schema) : schema[i].type = "title"
    /\ Cardinality(Keys(result.v["properties"])) = 1

(***************************************************************************)
(* Properties of chat_analyze_text_with_ai, checked under SpecChat.        *)
(***************************************************************************)
ChatDone == flow = "chat" /\ pc = "done"
ChatReturned == ChatDone /\ outcome = "returned"

\* C2: every returned mapping has a top-level message key with a truthy
\* value, after the leak correction, the coercion and the metadata, also
\* when the schema has a field named message.
C2_MessageAlwaysTruthy ==
    ChatReturned =>
        /\ "message" \in DOMAIN result.v
        /\ Truthy(result.v["message"])

\* C3: whenever the executor returns a content string, the call returns a
\* result mapping without raising.
C3_RaisesOnlyWhenExecutorRaises ==
    (ChatDone /\ executor = "returned") => outcome = "returned"

\* the response mapping after the message-field guarantee, before the leak
\* correction, recomputed from the content
BeforeLeak == EnsureMessage(ChatParse(reply)).val
\* the keys of the response mapping that are schema field names
Leaked == (DOMAIN BeforeLeak.v) \cap SchemaKeys(schema)

ExpectedUserContent ==
    IF image THEN PrepareMultimodalPrompt(IF text = "" THEN Placeholder ELSE text)
    ELSE IF text = "" THEN Placeholder ELSE text

=============================================================================
